---- MODULE Spec2Model ----
(***************************************************************************)
(* Model of the incremental recomputation core of HiPart's interactive     *)
(* visualization: recalculate_after_spchange (the Pruner) and              *)
(* partial_predict (the Recompute Loop), called from the Apply branch of   *)
(* Splitpoint_Manipulation_Callback, together with the reset of the stored *)
(* object by display_menu, which the server may run at the same time.      *)
(*                                                                         *)
(* The clustering tree is a treelib.Tree: a dict id -> Node kept in        *)
(* insertion order (keys) with a parent link per node.  The samples are    *)
(* points 1..MaxCoord on the projection axis; a node owns a set of them.   *)
(* The Splitter (split_function, select_kid, node data calculation) lives  *)
(* in HiPart.clustering and is modelled from its contract.                 *)
(***************************************************************************)
EXTENDS Integers, Sequences, FiniteSets, TLC

\* ---------------------------------------------------------------- bounds
MaxCoord == 5
MaxBudget == 4

\* Python's None for integer-valued fields (ids, splitpoints, criteria)
None == -1

Coords == 1..MaxCoord
SplitpointValues == 1..MaxCoord
SplitArgs == (0 - 2)..(MaxBudget - 1)
Budgets == 1..MaxBudget

VARIABLES
    input_object,      \* the pickled object in the input_object file
    stored,            \* the pickled object in the new_input_object file
    hipart_object,     \* the object loaded by the Apply callback
    pc,                \* position of the Apply callback
    split,             \* argument split (split_number)
    splitpoint_value,  \* argument splitpoint_value
    internal_nodes,    \* local internal_nodes
    node_keys,         \* local node_keys
    found_clusters,    \* local of partial_predict
    selected_node,     \* local of partial_predict
    pre,               \* history: the object as loaded, before the call
    pruned,            \* history: the object right after the pruning loop
    splitter_calls,    \* history: split_function calls of this partial_predict
    last_split         \* history: what the last split_function call was given

vars == <<input_object, stored, hipart_object, pc, split, splitpoint_value, internal_nodes,
          node_keys, found_clusters, selected_node, pre, pruned,
          splitter_calls, last_split>>

\* ------------------------------------------------------------- utilities
Max(S) == CHOOSE x \in S : \A y \in S : y <= x
Min(S) == CHOOSE x \in S : \A y \in S : x <= y

RECURSIVE FilterSeq(_, _)
FilterSeq(s, S) ==
    IF s = <<>> THEN <<>>
    ELSE IF Head(s) \in S THEN <<Head(s)>> \o FilterSeq(Tail(s), S)
         ELSE FilterSeq(Tail(s), S)

SeqToSet(s) == {s[i] : i \in 1..Len(s)}

\* position of id k in the sequence s (0 when absent)
IndexOf(s, k) ==
    IF k \in SeqToSet(s) THEN Min({i \in 1..Len(s) : s[i] = k}) ELSE 0

\* the ascending list of the members of a finite set of integers
RECURSIVE SortedSeq(_)
SortedSeq(S) ==
    IF S = {} THEN <<>> ELSE <<Min(S)>> \o SortedSeq(S \ {Min(S)})

\* Python list indexing lst[idx]: negative idx counts from the end
IndexValid(lst, idx) == (0 - Len(lst)) <= idx /\ idx < Len(lst)
PyIndex(lst, idx) == IF idx >= 0 THEN lst[idx + 1] ELSE lst[Len(lst) + idx + 1]

\* ------------------------------------------------------- treelib.Tree
\* a tree is [nodes |-> id -> node, keys |-> ids in dict insertion order]
contains(tree, nid) == nid \in DOMAIN tree.nodes
children(tree, nid) == {k \in DOMAIN tree.nodes : tree.nodes[k].parent = nid}
is_leaf(tree, nid) == children(tree, nid) = {}
is_root(tree, nid) == tree.nodes[nid].parent = None
parent(tree, nid) == tree.nodes[nid].parent
leaves(tree) == SelectSeq(tree.keys, LAMBDA k : is_leaf(tree, k))

RECURSIVE expand_tree(_, _)
expand_tree(tree, S) ==
    LET more == S \cup {k \in DOMAIN tree.nodes : tree.nodes[k].parent \in S}
    IN  IF more = S THEN S ELSE expand_tree(tree, more)

\* remove_node deletes the node together with its whole subtree
remove_node(tree, nid) ==
    LET gone == expand_tree(tree, {nid})
        keep == DOMAIN tree.nodes \ gone
    IN  [nodes |-> [k \in keep |-> tree.nodes[k]],
         keys  |-> FilterSeq(tree.keys, keep)]

\* ------------------------------------------- Splitter (HiPart.clustering)
calculate_splitpoint(X) ==
    IF Cardinality(X) >= 2 THEN ((Min(X) + Max(X)) \div 2) + 1 ELSE None

calculate_criterion(X) ==
    IF Cardinality(X) >= 2 THEN Max(X) - Min(X) ELSE None

calculate_node_data(X, par) ==
    [parent           |-> par,
     indices          |-> X,
     splitpoint       |-> calculate_splitpoint(X),
     split_criterion  |-> calculate_criterion(X),
     split_permition  |-> calculate_criterion(X) # None]

eligible(tree, k) ==
    /\ is_leaf(tree, k)
    /\ tree.nodes[k].split_criterion # None
    /\ tree.nodes[k].split_permition

\* the eligible leaf of greatest criterion, the earliest one on a tie
select_kid(tree) ==
    LET E == {k \in DOMAIN tree.nodes : eligible(tree, k)}
    IN  IF E = {} THEN None
        ELSE CHOOSE k \in E : \A j \in E \ {k} :
                \/ tree.nodes[j].split_criterion < tree.nodes[k].split_criterion
                \/ /\ tree.nodes[j].split_criterion = tree.nodes[k].split_criterion
                   /\ IndexOf(tree.keys, k) < IndexOf(tree.keys, j)

left_part(node) == {x \in node.indices : x < node.splitpoint}
right_part(node) == {x \in node.indices : x >= node.splitpoint}
degenerate(node) == left_part(node) = {} \/ right_part(node) = {}

split_function(obj, nid) ==
    LET tree == obj.tree
        node == tree.nodes[nid]
        l == obj.node_ids + 1
        r == obj.node_ids + 2
    IN  IF degenerate(node)
        THEN [obj EXCEPT !.tree.nodes[nid].split_criterion = None]
        ELSE [obj EXCEPT
                !.tree = [nodes |->
                            [k \in DOMAIN tree.nodes \cup {l, r} |->
                                IF k = l THEN calculate_node_data(left_part(node), nid)
                                ELSE IF k = r THEN calculate_node_data(right_part(node), nid)
                                ELSE IF k = nid THEN [node EXCEPT !.split_permition = FALSE]
                                ELSE tree.nodes[k]],
                          keys |-> FilterSeq(tree.keys, DOMAIN tree.nodes \ {l, r})
                                   \o <<l, r>>],
                !.node_ids = obj.node_ids + 2,
                !.cluster_color = obj.cluster_color + 2]

\* ------------------------------------------------------- partial_predict
\* variants of the loop condition: the budget test missing, off by one
\* upwards, off by one downwards
loop_condition_no_budget(obj, selected, found) ==
    selected # None

loop_condition_inclusive(obj, selected, found) ==
    selected # None /\ found <= obj.max_clusters_number

loop_condition_early(obj, selected, found) ==
    selected # None /\ found + 1 < obj.max_clusters_number

loop_condition(obj, selected, found) ==
    selected # None /\ found < obj.max_clusters_number

loop_body(obj, selected) == split_function(obj, selected)

\* variant of step (2): the selection is not renewed after the split
next_selected_keep(obj, selected) ==
    selected

\* step (2): select the next node among the leaves of the tree as it is now
next_selected(obj, selected) ==
    select_kid(obj.tree)

\* the while loop run to its end; the result is [obj, found, calls]
RECURSIVE run_loop(_, _, _, _)
run_loop(obj, selected, found, calls) ==
    IF loop_condition(obj, selected, found)
    THEN LET next == loop_body(obj, selected)
         IN  run_loop(next, next_selected(next, selected), found + 1, calls + 1)
    ELSE [obj |-> obj, found |-> found, calls |-> calls]

partial_predict(obj) ==
    run_loop(obj, select_kid(obj.tree), Len(leaves(obj.tree)), 0).obj

\* ------------------------------------------- recalculate_after_spchange
\* variant: the list is left empty when the tree has no internal node
compute_internal_nodes_no_fallback(tree) ==
    SortedSeq({i \in 0..(Len(tree.keys) - 1) : i \notin SeqToSet(leaves(tree))})

compute_internal_nodes(tree) ==
    LET number_of_nodes == Len(tree.keys)
        leaf_node_list == SeqToSet(leaves(tree))
        found == SortedSeq({i \in 0..(number_of_nodes - 1) : i \notin leaf_node_list})
    IN  IF Len(found) = 0 THEN <<0>> ELSE found

\* variant of the loop body: no test of the parents, every later node goes
prune_one_no_sibling(tree, edited, k) ==
    IF k > edited /\ contains(tree, k) THEN remove_node(tree, k) ELSE tree

\* one pass of the pruning loop body for the key k
prune_one(tree, edited, k) ==
    IF k > edited /\ contains(tree, k)
    THEN IF ~ is_root(tree, edited)
         THEN IF parent(tree, edited) # parent(tree, k)
              THEN remove_node(tree, k)
              ELSE tree
         ELSE remove_node(tree, k)
    ELSE tree

\* for i in range(len(node_keys) - 1, 0, -1): keys[i + 1] here, down to keys[2];
\* the tree after a pass is bound as t, so that it is computed once per pass
RECURSIVE prune_loop(_, _, _, _)
prune_loop(tree, keys, edited, i) ==
    IF i < 2 THEN tree
    ELSE CHOOSE result \in {prune_loop(t, keys, edited, i - 1) :
                               t \in {prune_one(tree, edited, keys[i])}} : TRUE

\* variant: the permission of the internal nodes is re-opened too
reopen_permissions_all(tree) ==
    [tree EXCEPT !.nodes =
        [k \in DOMAIN tree.nodes |->
            IF tree.nodes[k].split_criterion # None
            THEN [tree.nodes[k] EXCEPT !.split_permition = TRUE]
            ELSE tree.nodes[k]]]

reopen_permissions(tree) ==
    [tree EXCEPT !.nodes =
        [k \in DOMAIN tree.nodes |->
            IF is_leaf(tree, k) /\ tree.nodes[k].split_criterion # None
            THEN [tree.nodes[k] EXCEPT !.split_permition = TRUE]
            ELSE tree.nodes[k]]]

\* variants: node_ids one too high; node_ids left as it was
reset_counters_off_by_one(obj) ==
    [obj EXCEPT !.node_ids = Len(obj.tree.keys),
                !.cluster_color = Len(leaves(obj.tree)) + 1]

reset_counters_stale(obj) ==
    [obj EXCEPT !.cluster_color = Len(leaves(obj.tree)) + 1]

reset_counters(obj) ==
    [obj EXCEPT !.node_ids = Len(obj.tree.keys) - 1,
                !.cluster_color = Len(leaves(obj.tree)) + 1]

\* variant: the splitpoint is written to the node whose id is the root's
set_splitpoint_root(obj, edited, value) ==
    [obj EXCEPT !.tree.nodes[0].splitpoint = value]

set_splitpoint(obj, edited, value) ==
    [obj EXCEPT !.tree.nodes[edited].splitpoint = value]

\* internal_nodes[split] raises IndexError; get_node of an absent id gives
\* None, whose use raises AttributeError.  The loop body is the first place
\* that evaluates them, the splitpoint write the last.
raises_in_loop(tree, keys, inodes, sp) ==
    /\ Len(keys) > 1
    /\ \/ ~ IndexValid(inodes, sp)
       \/ /\ ~ contains(tree, PyIndex(inodes, sp))
          /\ \E i \in 2..Len(keys) : keys[i] > PyIndex(inodes, sp)

raises_at_write(tree, inodes, sp) ==
    \/ ~ IndexValid(inodes, sp)
    \/ ~ contains(tree, PyIndex(inodes, sp))

\* the whole call as a function: [ok |-> succeeded, obj |-> resulting object]
recalculate_after_spchange(obj, sp, value) ==
    LET inodes == compute_internal_nodes(obj.tree)
        keys == obj.tree.keys
    IN  IF raises_in_loop(obj.tree, keys, inodes, sp)
        THEN [ok |-> FALSE, obj |-> obj]
        ELSE IF raises_at_write(obj.tree, inodes, sp)
        THEN [ok |-> FALSE,
              obj |-> reset_counters([obj EXCEPT !.tree = reopen_permissions(obj.tree)])]
        ELSE LET edited == PyIndex(inodes, sp)
                 t1 == prune_loop(obj.tree, keys, edited, Len(keys))
                 o2 == reset_counters([obj EXCEPT !.tree = reopen_permissions(t1)])
                 o3 == set_splitpoint(o2, edited, value)
             IN  [ok |-> TRUE, obj |-> partial_predict(o3)]

\* ------------------------------------------------ the fit of the object
root_only(X, budget) ==
    [tree |-> [nodes |-> [k \in {0} |-> calculate_node_data(X, None)],
               keys  |-> <<0>>],
     node_ids |-> 0,
     cluster_color |-> 1,
     max_clusters_number |-> budget]

\* the loop of fit stops on the same two criteria
fit_condition(obj, selected, found) ==
    selected # None /\ found < obj.max_clusters_number

\* the nodes that forced names get the splitpoint it gives them
apply_forced(obj, forced) ==
    [obj EXCEPT !.tree.nodes =
        [k \in DOMAIN obj.tree.nodes |->
            IF k \in DOMAIN forced
            THEN [obj.tree.nodes[k] EXCEPT !.splitpoint = forced[k]]
            ELSE obj.tree.nodes[k]]]

\* a from-scratch run; forced maps node ids to splitpoints set by hand, which
\* a node carries from its creation
RECURSIVE fresh_loop(_, _, _, _)
fresh_loop(obj, selected, found, forced) ==
    IF fit_condition(obj, selected, found)
    THEN LET next == apply_forced(split_function(obj, selected), forced)
         IN  fresh_loop(next, select_kid(next.tree), found + 1, forced)
    ELSE obj

fit(X, budget, forced) ==
    LET o == apply_forced(root_only(X, budget), forced)
    IN  fresh_loop(o, select_kid(o.tree), 1, forced)

\* ------------------------------------------------------------ the state
NoSplit == [node |-> None, found |-> 0, was_eligible |-> TRUE]

InitialData == {1..n : n \in 2..MaxCoord}

Init ==
    /\ \E X \in InitialData, budget \in Budgets :
          /\ input_object = fit(X, budget, <<>>)
          /\ stored = input_object
          /\ hipart_object = stored
          /\ pre = stored
          /\ pruned = stored
    /\ pc = "idle"
    /\ split = 0
    /\ splitpoint_value = 1
    /\ internal_nodes = <<0>>
    /\ node_keys = <<0>>
    /\ found_clusters = 0
    /\ selected_node = None
    /\ splitter_calls = 0
    /\ last_split = NoSplit

\* Apply button: load the stored object and enter recalculate_after_spchange,
\* up to the point where the pruning loop starts
Apply(sp, value) ==
    /\ pc = "idle"
    /\ hipart_object' = stored
    /\ pre' = stored
    /\ pruned' = stored
    /\ split' = sp
    /\ splitpoint_value' = value
    /\ internal_nodes' = compute_internal_nodes(stored.tree)
    /\ node_keys' = stored.tree.keys
    /\ found_clusters' = 0
    /\ selected_node' = None
    /\ splitter_calls' = 0
    /\ last_split' = NoSplit
    /\ pc' = "prune"
    /\ UNCHANGED <<input_object, stored>>

\* the pruning loop; internal_nodes[split] is first evaluated in its body
Prune ==
    /\ pc = "prune"
    /\ IF raises_in_loop(hipart_object.tree, node_keys, internal_nodes, split)
       THEN /\ pc' = "error"
            /\ UNCHANGED <<hipart_object, pruned>>
       ELSE LET tree == IF Len(node_keys) > 1
                        THEN prune_loop(hipart_object.tree, node_keys,
                                        PyIndex(internal_nodes, split), Len(node_keys))
                        ELSE hipart_object.tree
            IN  /\ hipart_object' = [hipart_object EXCEPT !.tree = tree]
                /\ pruned' = hipart_object'
                /\ pc' = "reopen"
    /\ UNCHANGED <<input_object, stored, split, splitpoint_value, internal_nodes, node_keys,
                   found_clusters, selected_node, pre, splitter_calls, last_split>>

\* re-open the split permission of the leaves
Reopen ==
    /\ pc = "reopen"
    /\ hipart_object' = [hipart_object EXCEPT !.tree = reopen_permissions(hipart_object.tree)]
    /\ pc' = "reset"
    /\ UNCHANGED <<input_object, stored, split, splitpoint_value, internal_nodes, node_keys,
                   found_clusters, selected_node, pre, pruned, splitter_calls,
                   last_split>>

\* reset the counters, then write the new splitpoint
Reset ==
    /\ pc = "reset"
    /\ IF raises_at_write(hipart_object.tree, internal_nodes, split)
       THEN /\ hipart_object' = reset_counters(hipart_object)
            /\ pc' = "error"
       ELSE /\ hipart_object' = set_splitpoint(reset_counters(hipart_object),
                                               PyIndex(internal_nodes, split),
                                               splitpoint_value)
            /\ pc' = "predict"
    /\ UNCHANGED <<input_object, stored, split, splitpoint_value, internal_nodes, node_keys,
                   found_clusters, selected_node, pre, pruned, splitter_calls,
                   last_split>>

\* partial_predict up to the first evaluation of the loop condition
PredictInit ==
    /\ pc = "predict"
    /\ found_clusters' = Len(leaves(hipart_object.tree))
    /\ selected_node' = select_kid(hipart_object.tree)
    /\ pc' = "loop"
    /\ UNCHANGED <<input_object, stored, hipart_object, split, splitpoint_value, internal_nodes,
                   node_keys, pre, pruned, splitter_calls, last_split>>

\* one iteration of the while loop
LoopIter ==
    /\ pc = "loop"
    /\ loop_condition(hipart_object, selected_node, found_clusters)
    /\ hipart_object' = loop_body(hipart_object, selected_node)
    /\ selected_node' = next_selected(hipart_object', selected_node)
    /\ found_clusters' = found_clusters + 1
    /\ splitter_calls' = splitter_calls + 1
    /\ last_split' = [node |-> selected_node,
                      found |-> found_clusters,
                      was_eligible |-> /\ contains(hipart_object.tree, selected_node)
                                       /\ eligible(hipart_object.tree, selected_node)
                                       /\ selected_node = select_kid(hipart_object.tree)]
    /\ UNCHANGED <<input_object, stored, pc, split, splitpoint_value, internal_nodes, node_keys,
                   pre, pruned>>

\* the loop condition fails: partial_predict and the call return
LoopExit ==
    /\ pc = "loop"
    /\ ~ loop_condition(hipart_object, selected_node, found_clusters)
    /\ pc' = "returned"
    /\ UNCHANGED <<input_object, stored, hipart_object, split, splitpoint_value, internal_nodes,
                   node_keys, found_clusters, selected_node, pre, pruned,
                   splitter_calls, last_split>>

\* the locals of the callback are gone once it has ended
Ended ==
    /\ pc' = "idle"
    /\ hipart_object' = stored'
    /\ pre' = stored'
    /\ pruned' = stored'
    /\ split' = 0
    /\ splitpoint_value' = 1
    /\ internal_nodes' = <<0>>
    /\ node_keys' = <<0>>
    /\ found_clusters' = 0
    /\ selected_node' = None
    /\ splitter_calls' = 0
    /\ last_split' = NoSplit

\* the callback dumps the returned object
Store ==
    /\ pc = "returned"
    /\ stored' = hipart_object
    /\ UNCHANGED input_object
    /\ Ended

\* the IndexError leaves the callback: nothing is dumped
Raise ==
    /\ pc = "error"
    /\ UNCHANGED <<input_object, stored>>
    /\ Ended

\* display_menu for any other pathname: the stored object is reset to the
\* original one.  The server runs its callbacks in threads of their own, so
\* the reset also runs while an Apply callback is between its load and its
\* dump; that callback works on its own loaded copy and touches the file at
\* the load and at the dump only, so a reset anywhere in between is taken
\* here right before the dump.  No callback is running at "idle", where the
\* history follows the stored object.
display_menu_reset ==
    /\ pc \in {"idle", "returned"}
    /\ stored' = input_object
    /\ IF pc = "idle"
       THEN /\ hipart_object' = stored'
            /\ pre' = stored'
            /\ pruned' = stored'
       ELSE UNCHANGED <<hipart_object, pre, pruned>>
    /\ UNCHANGED <<input_object, pc, split, splitpoint_value, internal_nodes,
                   node_keys, found_clusters, selected_node, splitter_calls,
                   last_split>>

Next ==
    \/ \E sp \in SplitArgs, value \in SplitpointValues : Apply(sp, value)
    \/ Prune
    \/ Reopen
    \/ Reset
    \/ PredictInit
    \/ LoopIter
    \/ LoopExit
    \/ Store
    \/ Raise
    \/ display_menu_reset

Spec == Init /\ [][Next]_vars

\* ---------------------------------------------------------- the claims
\* the node the call edits, for a split that indexes internal_nodes
Edited == PyIndex(internal_nodes, split)
ValidSplit == IndexValid(internal_nodes, split)

RECURSIVE ancestors(_, _)
ancestors(tree, nid) ==
    IF ~ contains(tree, nid) \/ tree.nodes[nid].parent = None THEN {}
    ELSE {tree.nodes[nid].parent} \cup ancestors(tree, tree.nodes[nid].parent)

SameParent(t1, t2, k) == t1.nodes[k].parent = t2.nodes[k].parent
SameFlags(t1, t2, k) ==
    /\ t1.nodes[k].split_criterion = t2.nodes[k].split_criterion
    /\ t1.nodes[k].split_permition = t2.nodes[k].split_permition
SameNode(t1, t2, k) ==
    /\ contains(t2, k)
    /\ SameParent(t1, t2, k)
    /\ children(t1, k) = children(t2, k)
    /\ SameFlags(t1, t2, k)
    /\ t1.nodes[k].splitpoint = t2.nodes[k].splitpoint

AncestorsKept ==
    \A a \in ancestors(pre.tree, Edited) : SameNode(pre.tree, hipart_object.tree, a)

\* the new splitpoint leaves one side of the edited node without samples
EditIsDegenerate ==
    degenerate([pre.tree.nodes[Edited] EXCEPT !.splitpoint = splitpoint_value])

C2_PruningRule ==
    (pc = "reopen" /\ ValidSplit) =>
        DOMAIN hipart_object.tree.nodes =
            IF is_root(pre.tree, Edited) THEN {Edited}
            ELSE {k \in DOMAIN pre.tree.nodes :
                    \/ k <= Edited
                    \/ parent(pre.tree, k) = parent(pre.tree, Edited)}

C2_Witness ==
    /\ pc = "reopen"
    /\ ValidSplit
    /\ ~ is_root(pre.tree, Edited)
    /\ \E k \in DOMAIN hipart_object.tree.nodes : k > Edited
    /\ \E k \in DOMAIN pre.tree.nodes : ~ contains(hipart_object.tree, k)

\* C3: on return the edited node's splitpoint is the new value, and every
\* other node that survived the pruning has the splitpoint it had before.
C3_Splitpoints ==
    (pc = "returned") =>
        /\ hipart_object.tree.nodes[Edited].splitpoint = splitpoint_value
        /\ \A k \in DOMAIN pruned.tree.nodes \ {Edited} :
              /\ contains(hipart_object.tree, k)
              /\ hipart_object.tree.nodes[k].splitpoint = pre.tree.nodes[k].splitpoint

C3_Witness ==
    /\ pc = "returned"
    /\ splitpoint_value # pre.tree.nodes[Edited].splitpoint
    /\ ~ is_leaf(hipart_object.tree, Edited)
    /\ \E k \in DOMAIN pruned.tree.nodes \ {Edited} :
          is_leaf(pruned.tree, k) /\ ~ is_leaf(hipart_object.tree, k)

\* what fresh-run equivalence compares: ids, parent links, splitpoints
Shape(tree) ==
    [k \in DOMAIN tree.nodes |->
        [parent |-> tree.nodes[k].parent, splitpoint |-> tree.nodes[k].splitpoint]]

RootData == pre.tree.nodes[0].indices
Budget == pre.max_clusters_number

FreshForcedEdit == fit(RootData, Budget, [k \in {Edited} |-> splitpoint_value])

\* the fresh run in which every node that survives the pruning has the
\* splitpoint it carries now
FreshForcedKept ==
    fit(RootData, Budget,
        [k \in DOMAIN pruned.tree.nodes |->
            IF k = Edited THEN splitpoint_value ELSE pre.tree.nodes[k].splitpoint])

\* no surviving node was marked unsplittable by an earlier degenerate split
NoDegenerateMark ==
    \A k \in DOMAIN pruned.tree.nodes :
        pre.tree.nodes[k].split_criterion = calculate_criterion(pre.tree.nodes[k].indices)

C5_Pre ==
    /\ pc = "returned"
    /\ ~ is_leaf(pre.tree, Edited)
    /\ pre.tree.nodes[Edited].split_criterion # None
    /\ Len(leaves(pruned.tree)) < pruned.max_clusters_number

\* the edited node has two children that part its samples at the new splitpoint
SplitAtNewValue ==
    LET kids == children(hipart_object.tree, Edited)
        node == hipart_object.tree.nodes[Edited]
    IN  /\ Cardinality(kids) = 2
        /\ node.splitpoint = splitpoint_value
        /\ {hipart_object.tree.nodes[k].indices : k \in kids}
              = {left_part(node), right_part(node)}

Partition(tree) ==
    [k \in DOMAIN tree.nodes |->
        [parent |-> tree.nodes[k].parent,
         splitpoint |-> tree.nodes[k].splitpoint,
         indices |-> tree.nodes[k].indices]]

SecondCall == recalculate_after_spchange(hipart_object, split, splitpoint_value)

Idempotent ==
    /\ SecondCall.ok
    /\ Partition(SecondCall.obj.tree) = Partition(hipart_object.tree)

\* split still selects the edited node in the internal nodes of the result
SameSelection ==
    /\ IndexValid(compute_internal_nodes(hipart_object.tree), split)
    /\ PyIndex(compute_internal_nodes(hipart_object.tree), split) = Edited

\* C6 as stated: a second call with the same split and splitpoint on the
\* result of the first succeeds and gives the same tree.
C6_Original == (pc = "returned") => Idempotent

\* C6 amended: the same, provided split selects in the result the node it
\* selected in the first call.
C6_Idempotence == (pc = "returned" /\ SameSelection) => Idempotent

C6_Witness ==
    /\ pc = "returned"
    /\ SameSelection
    /\ ~ is_root(pre.tree, Edited)
    /\ splitpoint_value # pre.tree.nodes[Edited].splitpoint
    /\ Partition(hipart_object.tree) # Partition(pre.tree)
    /\ splitter_calls >= 2

KeysAscending(tree) ==
    \A i, j \in 1..Len(tree.keys) : i < j => tree.keys[i] < tree.keys[j]

\* the ids of the nodes this call removed
RemovedIds == DOMAIN pre.tree.nodes \ DOMAIN pruned.tree.nodes

\* C7 as stated: ids are unique and increase in creation order, and no id of
\* a removed node is given to a node created later.
C7_Original ==
    /\ KeysAscending(hipart_object.tree)
    /\ SeqToSet(hipart_object.tree.keys) = DOMAIN hipart_object.tree.nodes
    /\ (pc \in {"loop", "returned"} =>
            DOMAIN hipart_object.tree.nodes \cap RemovedIds = {})

\* C7 amended: ids are unique and increase in creation order, and the ids in
\* use are always 0 .. n-1 (the ids of removed nodes are given out again).
C7_IdMonotonicity ==
    /\ KeysAscending(hipart_object.tree)
    /\ SeqToSet(hipart_object.tree.keys) = DOMAIN hipart_object.tree.nodes
    /\ DOMAIN hipart_object.tree.nodes = 0..(Len(hipart_object.tree.keys) - 1)
    /\ KeysAscending(stored.tree)
    /\ DOMAIN stored.tree.nodes = 0..(Len(stored.tree.keys) - 1)

C7_Witness ==
    /\ pc = "returned"
    /\ splitter_calls >= 2
    /\ Cardinality(RemovedIds) >= 4
    /\ \E k \in RemovedIds : contains(hipart_object.tree, k)

\* C8: partial_predict halts, and it calls the Splitter at most
\* max_clusters_number times: every iteration uses up one unit of the budget
\* max_clusters_number - found_clusters, which is never overdrawn, and the
\* iterations of one run never outnumber max_clusters_number.
C8_Termination ==
    /\ [][LoopIter =>
            /\ found_clusters < hipart_object.max_clusters_number
            /\ found_clusters' = found_clusters + 1
            /\ splitter_calls' = splitter_calls + 1
            /\ hipart_object'.max_clusters_number = hipart_object.max_clusters_number]_vars
    /\ [](splitter_calls <= hipart_object.max_clusters_number)
    /\ [](pc \in {"loop", "returned"} =>
            /\ found_clusters = Len(leaves(pruned.tree)) + splitter_calls
            /\ (splitter_calls > 0 => found_clusters <= hipart_object.max_clusters_number))

C8_Witness ==
    /\ pc = "returned"
    /\ splitter_calls >= 3

\* C9: the Splitter is only given the node select_kid returned, an eligible
\* leaf, while found_clusters < max_clusters_number; and the loop has stopped
\* exactly when found_clusters >= max_clusters_number or no leaf is eligible.
C9_StoppingCriteria ==
    /\ (last_split # NoSplit =>
            /\ last_split.was_eligible
            /\ last_split.found < hipart_object.max_clusters_number)
    /\ (pc = "returned" =>
            \/ found_clusters >= hipart_object.max_clusters_number
            \/ select_kid(hipart_object.tree) = None)
    /\ (pc = "loop" /\ found_clusters < hipart_object.max_clusters_number
                    /\ select_kid(hipart_object.tree) # None
            => ENABLED LoopIter)

C9_Witness ==
    /\ pc = "returned"
    /\ splitter_calls >= 1
    /\ found_clusters < hipart_object.max_clusters_number
    /\ select_kid(hipart_object.tree) = None

\* C10 as stated: a call whose split is outside [0, len(internal_nodes)),
\* negative values included, fails with IndexError and never returns a tree.
C10_InvalidIndexRejected ==
    (pc \in {"predict", "loop", "returned"})
        => (0 <= split /\ split < Len(internal_nodes))

\* C11 as stated: when the call fails because split is out of range, the
\* object is exactly as it was before the call (tree, split permissions,
\* node_ids, cluster_color, splitpoints), the root-only tree included.
C11_Atomicity ==
    (pc = "error" /\ ~ ValidSplit) => hipart_object = pre

\* the scenario: the root is the only internal node, the budget is 2, split 0
C12_Pre ==
    /\ pc = "returned"
    /\ split = 0
    /\ pre.max_clusters_number = 2
    /\ ~ is_leaf(pre.tree, 0)
    /\ \A k \in DOMAIN pre.tree.nodes \ {0} : is_leaf(pre.tree, k)

\* every other node is removed, the root carries the new splitpoint, and the
\* Splitter is called once, on the root, with found_clusters = 1; stop by ST1
RootPrunedAndSplitOnce ==
    /\ DOMAIN pruned.tree.nodes = {0}
    /\ hipart_object.tree.nodes[0].splitpoint = splitpoint_value
    /\ splitter_calls = 1
    /\ last_split.node = 0
    /\ last_split.found = 1
    /\ found_clusters >= hipart_object.max_clusters_number

RootPlusTwoLeaves ==
    /\ DOMAIN hipart_object.tree.nodes = {0, 1, 2}
    /\ children(hipart_object.tree, 0) = {1, 2}
    /\ hipart_object.tree.nodes[1].indices = left_part(hipart_object.tree.nodes[0])
    /\ hipart_object.tree.nodes[2].indices = right_part(hipart_object.tree.nodes[0])

Marked(tree) == {k \in DOMAIN tree.nodes : tree.nodes[k].split_criterion = None}

\* C13: a node with split_criterion None is never given to the Splitter; the
\* mark stays on the node as long as the node is in the tree, through later
\* iterations, into the stored object and through later calls on it that do
\* not prune the node, and the re-opening of the permissions does not make
\* the node eligible.
C13_DegenerateNeverResplit ==
    /\ [][LoopIter => selected_node \notin Marked(hipart_object.tree)]_vars
    /\ [][pc # "idle" /\ pc' # "idle" =>
              \A k \in Marked(hipart_object.tree) :
                  contains(hipart_object'.tree, k) => k \in Marked(hipart_object'.tree)]_vars
    /\ [][Store => stored' = hipart_object]_vars
    /\ [](\A k \in Marked(hipart_object.tree) : ~ eligible(hipart_object.tree, k))
    /\ [](pc \in {"predict", "loop", "returned"} =>
            \A k \in Marked(pre.tree) \cap DOMAIN pruned.tree.nodes :
                k \in Marked(hipart_object.tree) /\ last_split.node # k)

C13_Witness ==
    /\ pc = "returned"
    /\ splitter_calls >= 1
    /\ \E k \in Marked(pre.tree) \cap DOMAIN pruned.tree.nodes :
          /\ Cardinality(pre.tree.nodes[k].indices) >= 2
          /\ is_leaf(hipart_object.tree, k)
          /\ hipart_object.tree.nodes[k].split_permition
    /\ \E k \in Marked(hipart_object.tree) \ Marked(pre.tree) :
          Cardinality(hipart_object.tree.nodes[k].indices) >= 2

\* C14 as stated: from the load of an edit to its store no other callback
\* writes the stored object, so the object an edit stores is the result of
\* that edit on the object that is stored at that moment.
C14_ExclusiveEditSection ==
    (pc # "idle") => stored = pre

\* the ids of the nodes of the tree that have a child, in ascending order
NonLeafIds(tree) == SortedSeq({k \in DOMAIN tree.nodes : ~ is_leaf(tree, k)})

\* C15: in every call the list internal_nodes, once computed, is the
\* ascending list of the ids of the nodes that are in the tree and have a
\* child, or [0] when there is no such node.
C15_InternalNodeList ==
    (pc = "prune") =>
        internal_nodes = IF NonLeafIds(pre.tree) = <<>> THEN <<0>>
                         ELSE NonLeafIds(pre.tree)

C15_Witness ==
    /\ pc = "prune"
    /\ pre # input_object
    /\ Len(internal_nodes) >= 3
    /\ \E i \in 1..Len(internal_nodes) : internal_nodes[i] # i - 1

C17_CounterReset ==
    /\ (pc = "predict" =>
            /\ hipart_object.node_ids = Len(hipart_object.tree.keys) - 1
            /\ hipart_object.cluster_color = Len(leaves(hipart_object.tree)) + 1)
    /\ (pc = "returned" =>
            hipart_object.node_ids = Len(hipart_object.tree.keys) - 1)

C17_Witness ==
    /\ pc = "returned"
    /\ pre.node_ids # Len(pruned.tree.keys) - 1
    /\ Len(pruned.tree.keys) < Len(pre.tree.keys)
    /\ Len(pruned.tree.keys) >= 3
    /\ splitter_calls >= 2
    /\ Len(hipart_object.tree.keys) < Len(pruned.tree.keys) + 2 * splitter_calls

NumLeaves(tree) == Len(leaves(tree))

\* the Splitter calls of this run that created no children
DegenerateCalls ==
    splitter_calls - ((Len(hipart_object.tree.keys) - Len(pruned.tree.keys)) \div 2)

\* C18 as stated: whenever the loop condition is evaluated found_clusters is
\* the number of leaves; on return the number of leaves is at most
\* max_clusters_number if it was so at the start, and is max_clusters_number
\* when the loop stopped by ST1.
C18_Original ==
    /\ (pc = "loop" => found_clusters = NumLeaves(hipart_object.tree))
    /\ (pc = "returned" =>
            /\ (NumLeaves(pruned.tree) <= hipart_object.max_clusters_number
                    => NumLeaves(hipart_object.tree) <= hipart_object.max_clusters_number)
            /\ (found_clusters >= hipart_object.max_clusters_number
                    => NumLeaves(hipart_object.tree) = hipart_object.max_clusters_number))

\* C18 amended: whenever the loop condition is evaluated found_clusters is
\* the number of leaves plus the number of degenerate splits of this run;
\* on return the number of leaves is at most max_clusters_number if it was
\* so at the start, and is max_clusters_number when the loop stopped by ST1
\* and no split of the run was degenerate.
C18_ClusterCount ==
    /\ (pc \in {"loop", "returned"} =>
            /\ DegenerateCalls >= 0
            /\ found_clusters = NumLeaves(hipart_object.tree) + DegenerateCalls)
    /\ (pc = "returned" =>
            /\ (NumLeaves(pruned.tree) <= hipart_object.max_clusters_number
                    => NumLeaves(hipart_object.tree) <= hipart_object.max_clusters_number)
            /\ (found_clusters >= hipart_object.max_clusters_number /\ DegenerateCalls = 0
                    => NumLeaves(hipart_object.tree) = hipart_object.max_clusters_number))

C18_Witness ==
    /\ pc = "returned"
    /\ splitter_calls >= 2
    /\ DegenerateCalls = 1
    /\ found_clusters >= hipart_object.max_clusters_number
    /\ NumLeaves(hipart_object.tree) = hipart_object.max_clusters_number - 1
    /\ NumLeaves(hipart_object.tree) > NumLeaves(pruned.tree)

====
